---- MODULE Spec2Model ----
(***************************************************************************)
(* Model of the workflow execution engine of tala_base: the ChainExecutor  *)
(* of package orchestrator (LoadWorkflow, ExecuteStep, ExecuteChain) and   *)
(* the data types of package types it works on.                            *)
(*                                                                         *)
(* Go pointers and nilable values are sequences of length 0 (nil) or 1.    *)
(* Go maps are functions; a nil map[string]interface{} is NilMap.          *)
(***************************************************************************)
EXTENDS Integers, Sequences, FiniteSets, TLC

VARIABLES files, workflows, loadErr, pc, name, input, exists, workflow, i,
          state, calls, ret,
          direct,     \* the return of a direct call of ExecuteStep, if any
          runs,       \* the locals of each concurrent call of ExecuteChain
          cells,      \* the WorkflowState each concurrent call allocated
          mapWrite,   \* the assignment to e.workflows that is in progress
          race        \* a read of e.workflows has overlapped a write

\* the variables of the direct, the concurrent and the reloading callers
aux == <<direct, runs, cells, mapWrite, race>>

vars ==
  <<files, workflows, loadErr, pc, name, input, exists, workflow, i, state,
    calls, ret, aux>>

(***************************************************************************)
(* Bounds of the model.                                                    *)
(***************************************************************************)
\* longest step list of a workflow file
MaxSteps == 3

(***************************************************************************)
(* Values.                                                                 *)
(***************************************************************************)
NilMap == "nil"

\* the data maps a caller or a lambda can supply
DataValues == {"d0", "d1", "d2"}

\* the context maps a caller can supply
ContextValues == {NilMap, "c1"}

StatusOK == 200

JSONContentType == "application/json"

\* NewChainExecutor: the port of each lambda
ports ==
  [l \in {"user_create", "user_read", "user_update", "user_delete"} |->
     CASE l = "user_create" -> 8080
       [] l = "user_read"   -> 8081
       [] l = "user_update" -> 8082
       [] l = "user_delete" -> 8083]

EmptyMap == [k \in {} |-> 0]

MapPut(m, k, v) == [x \in (DOMAIN m) \cup {k} |-> IF x = k THEN v ELSE m[x]]

(***************************************************************************)
(* types: WorkflowInput, WorkflowOutput, StepState, WorkflowError,         *)
(* StepResult, WorkflowState, Step, Workflow.                              *)
(***************************************************************************)
WorkflowInput(data, context) == [Data |-> data, Context |-> context]

WorkflowOutput(data, context, error) ==
  [Data |-> data, Context |-> context, Error |-> error]

ZeroOutput == WorkflowOutput(NilMap, NilMap, <<>>)

StepState(in, out) == [Input |-> in, Output |-> out]

WorkflowError(step, message, code) ==
  [Step |-> step, Message |-> message, Code |-> code]

StepResult(data, error) == [Data |-> data, Error |-> error]

WorkflowState(steps, current, completed) ==
  [Steps |-> steps, CurrentStep |-> current, Completed |-> completed]

Step(n, lambda, tmpl, handler) ==
  [Name |-> n, Lambda |-> lambda, InputTemplate |-> tmpl,
   ErrorHandler |-> handler]

Workflow(steps) == [Steps |-> steps]

(***************************************************************************)
(* Input templates.  A template is a parse verdict and the field chains    *)
(* of its actions; rendering evaluates each chain against the              *)
(* *WorkflowState that ExecuteStep passes to Execute.                      *)
(***************************************************************************)
Template(syntaxOK, chains) == [SyntaxOK |-> syntaxOK, Chains |-> chains]

\* Step.InputTemplate left empty, as handleLambda does
TmplEmpty == Template(TRUE, <<>>)

\* an unterminated action
TmplUnclosed == Template(FALSE, <<>>)

\* {{.CurrentStep}}
TmplCurrent == Template(TRUE, << <<"CurrentStep">> >>)

\* {{.Steps.create_user.Input.Data}}
TmplOwnInput == Template(TRUE, << <<"Steps", "create_user", "Input", "Data">> >>)

\* {{.Steps.create_user.Output.Data}}
TmplCreated == Template(TRUE, << <<"Steps", "create_user", "Output", "Data">> >>)

\* workflows/user_signup_chain.yaml, step create_user
TmplSignupCreate == Template(TRUE, << <<"input", "email">>, <<"input", "name">> >>)

\* workflows/user_signup_chain.yaml, steps verify_user and cleanup_user
TmplSignupUser == Template(TRUE, << <<"user", "user", "id">> >>)

NoValue == "<no value>"

EvalFailed == "<error>"

\* the exported fields of WorkflowState
StateFields == {"Steps", "CurrentStep", "Completed"}

\* text/template's field chain evaluation on *WorkflowState: a struct field
\* that does not exist is an error, a map key that does not exist is no
\* value, a field of a nil pointer is an error
EvalChain(chain, st) ==
  IF Len(chain) = 0 THEN NoValue
  ELSE IF chain[1] \notin StateFields THEN EvalFailed
  ELSE IF chain[1] = "CurrentStep"
    THEN IF Len(chain) = 1 THEN st.CurrentStep ELSE EvalFailed
  ELSE IF chain[1] = "Completed"
    THEN IF Len(chain) = 1 THEN (IF st.Completed THEN "true" ELSE "false")
         ELSE EvalFailed
  ELSE IF Len(chain) = 1 THEN "map"
  ELSE IF chain[2] \notin DOMAIN st.Steps THEN NoValue
  ELSE IF Len(chain) = 2 THEN "{stepstate}"
  ELSE IF chain[3] \notin {"Input", "Output"} THEN EvalFailed
  ELSE IF Len(chain) = 3 THEN "{io}"
  ELSE IF chain[3] = "Output" /\ chain[4] = "Error"
    THEN IF Len(chain) = 4 THEN "*error"
         ELSE IF st.Steps[chain[2]].Output.Error = <<>> THEN EvalFailed
         ELSE IF Len(chain) = 5 /\ chain[5] = "Code"
           THEN st.Steps[chain[2]].Output.Error[1].Code
         ELSE IF Len(chain) = 5 /\ chain[5] = "Step"
           THEN st.Steps[chain[2]].Output.Error[1].Step
         ELSE EvalFailed
  ELSE IF Len(chain) > 4 THEN NoValue
  ELSE IF chain[4] = "Data" THEN st.Steps[chain[2]][chain[3]].Data
  ELSE IF chain[4] = "Context" THEN st.Steps[chain[2]][chain[3]].Context
  ELSE EvalFailed

\* template.New("input").Parse
TemplateParse(tmpl) == tmpl.SyntaxOK

\* the bytes tmpl.Execute writes: the value of each action
Rendered(tmpl, st) == [j \in 1..Len(tmpl.Chains) |-> EvalChain(tmpl.Chains[j], st)]

\* an execution that writes "<error>" for a field it cannot evaluate and
\* goes on
TemplateExecute_lenient(tmpl, st) == TRUE

\* tmpl.Execute(&inputBuf, state) succeeds
TemplateExecute(tmpl, st) ==
  \A j \in 1..Len(tmpl.Chains) : EvalChain(tmpl.Chains[j], st) # EvalFailed

(***************************************************************************)
(* The network: what one http.Post to a lambda can come to.                *)
(***************************************************************************)
Net(kind, ctype, status, body) ==
  [kind |-> kind, ctype |-> ctype, status |-> status, body |-> body]

\* no call was made
NoNet == Net("none", "", 0, "")

BodyData1 == "{data:d1}"

BodyData2 == "{data:d2}"

BodyDomainError == "{data:d1,error:{step:user_read,message:no such user,code:NOT_FOUND}}"

BodyText == "Failed to get user"

Bodies == {BodyData1, BodyData2, BodyDomainError, BodyText}

\* json.Unmarshal(body, &result) succeeds
JSONValid(body) == body # BodyText

\* the StepResult json.Unmarshal decodes from a valid body
JSONDecode(body) ==
  CASE body = BodyData1 -> StepResult("d1", <<>>)
    [] body = BodyData2 -> StepResult("d2", <<>>)
    [] body = BodyDomainError ->
         StepResult("d1",
           <<WorkflowError("user_read", <<"no such user">>, "NOT_FOUND")>>)
    [] OTHER -> StepResult(NilMap, <<>>)

NetOutcomes ==
  { Net("post_fail", "", 0, ""), Net("read_fail", JSONContentType, StatusOK, "") }
  \cup { Net("response", JSONContentType, StatusOK, b) : b \in Bodies }
  \cup { Net("response", JSONContentType, 500, BodyData1),
         Net("response", "text/plain; charset=utf-8", 500, BodyText),
         Net("response", "text/plain; charset=utf-8", StatusOK, BodyData1) }

(***************************************************************************)
(* ChainExecutor.ExecuteStep.  What a call returns: the *StepResult, the   *)
(* error, and the request it posted, if it got that far.                   *)
(***************************************************************************)
StepReturn(result, err, posted) ==
  [result |-> result, err |-> err, posted |-> posted]

Request(step, st) ==
  [port |-> ports[step.Lambda], payload |-> Rendered(step.InputTemplate, st)]

\* the *StepResult that carries an error made by ExecuteStep itself
ErrorResult(step, message, code) ==
  StepResult(NilMap, <<WorkflowError(step.Name, message, code)>>)

\* a transport failure turned into a result that carries an error
TransportFailure_recoverable(step, st, net) ==
  StepReturn(<<ErrorResult(step, <<"failed to call lambda">>, "LAMBDA_ERROR")>>,
             <<>>, <<Request(step, st)>>)

\* http.Post or io.ReadAll failed
TransportFailure(step, st, net) ==
  StepReturn(<<>>,
             IF net.kind = "post_fail"
               THEN << <<"failed to call lambda">> >>
               ELSE << <<"failed to read lambda response">> >>,
             <<Request(step, st)>>)

\* a parse failure returned together with an error
ParseFailure_both(step, st, net) ==
  StepReturn(<<ErrorResult(step,
                 <<"failed to parse lambda response as JSON: ", net.body>>,
                 "INVALID_JSON")>>,
             << <<"failed to parse lambda response">> >>,
             <<Request(step, st)>>)

\* the body could not be decoded into a StepResult
ParseFailure(step, st, net) ==
  StepReturn(<<ErrorResult(step,
                 <<"failed to parse lambda response as JSON: ", net.body>>,
                 "INVALID_JSON")>>,
             <<>>, <<Request(step, st)>>)

\* a classification that looks at the status before the Content-Type
ClassifyResponse_statusFirst(step, st, net) ==
  IF net.status # StatusOK
    THEN StepReturn(<<ErrorResult(step,
                        <<"lambda returned error: ", net.body>>,
                        "LAMBDA_ERROR")>>,
                    <<>>, <<Request(step, st)>>)
  ELSE IF net.ctype # JSONContentType
    THEN StepReturn(<<ErrorResult(step,
                        <<"lambda returned unexpected Content-Type: ",
                          net.ctype, ", body: ", net.body>>,
                        "INVALID_RESPONSE_TYPE")>>,
                    <<>>, <<Request(step, st)>>)
  ELSE IF ~JSONValid(net.body)
    THEN ParseFailure(step, st, net)
  ELSE StepReturn(<<JSONDecode(net.body)>>, <<>>, <<Request(step, st)>>)

\* a response was read: Content-Type, then status, then body
ClassifyResponse(step, st, net) ==
  IF net.ctype # JSONContentType
    THEN StepReturn(<<ErrorResult(step,
                        <<"lambda returned unexpected Content-Type: ",
                          net.ctype, ", body: ", net.body>>,
                        "INVALID_RESPONSE_TYPE")>>,
                    <<>>, <<Request(step, st)>>)
  ELSE IF net.status # StatusOK
    THEN StepReturn(<<ErrorResult(step,
                        <<"lambda returned error: ", net.body>>,
                        "LAMBDA_ERROR")>>,
                    <<>>, <<Request(step, st)>>)
  ELSE IF ~JSONValid(net.body)
    THEN ParseFailure(step, st, net)
  ELSE StepReturn(<<JSONDecode(net.body)>>, <<>>, <<Request(step, st)>>)

\* a lambda without a port turned into a result that carries an error
RoutingFailure_recoverable(step) ==
  StepReturn(<<ErrorResult(step,
                 <<"no port mapping found for lambda ", step.Lambda>>,
                 "LAMBDA_ERROR")>>,
             <<>>, <<>>)

\* e.ports has no entry for step.Lambda
RoutingFailure(step) ==
  StepReturn(<<>>,
             << <<"no port mapping found for lambda ", step.Lambda>> >>,
             <<>>)

ExecuteStep(step, st, net) ==
  IF ~TemplateParse(step.InputTemplate)
    THEN StepReturn(<<>>, << <<"failed to parse input template">> >>, <<>>)
  ELSE IF ~TemplateExecute(step.InputTemplate, st)
    THEN StepReturn(<<>>, << <<"failed to execute template">> >>, <<>>)
  ELSE IF step.Lambda \notin DOMAIN ports
    THEN RoutingFailure(step)
  ELSE IF net.kind \in {"post_fail", "read_fail"}
    THEN TransportFailure(step, st, net)
  ELSE ClassifyResponse(step, st, net)

\* the entry of the call log for one call of ExecuteStep
Call(kind, idx, step, st, net, r) ==
  [kind |-> kind, idx |-> idx, step |-> step,
   input |-> IF step.Name \in DOMAIN st.Steps
               THEN <<st.Steps[step.Name].Input>> ELSE <<>>,
   net |-> IF r.posted = <<>> THEN NoNet ELSE net,
   ret |-> r]

(***************************************************************************)
(* ChainExecutor.ExecuteChain.  What a call returns: the *WorkflowOutput,  *)
(* the error, or the runtime panic that unwinds it.                        *)
(***************************************************************************)
ChainReturn(out, err, panic) == [out |-> out, err |-> err, panic |-> panic]

NoReturn == ChainReturn(<<>>, <<>>, <<>>)

IndexOutOfRange == "index out of range"

\* a seed that takes the caller's data and leaves the context behind
SeedState_noContext(wf, in) ==
  WorkflowState(MapPut(EmptyMap, wf.Steps[1].Name,
                       StepState(WorkflowInput(in.Data, NilMap), ZeroOutput)),
                wf.Steps[1].Name, FALSE)

\* the state ExecuteChain builds before the loop
SeedState(wf, in) ==
  WorkflowState(MapPut(EmptyMap, wf.Steps[1].Name, StepState(in, ZeroOutput)),
                wf.Steps[1].Name, FALSE)

\* "Update state": the step's entry with the result as its output
RecordOutput(st, step, result) ==
  LET stepState == IF step.Name \in DOMAIN st.Steps
                     THEN st.Steps[step.Name]
                     ELSE StepState(WorkflowInput(NilMap, NilMap), ZeroOutput)
  IN  [st EXCEPT !.Steps =
         MapPut(st.Steps, step.Name,
                StepState(stepState.Input,
                          WorkflowOutput(result.Data, NilMap, result.Error)))]

\* the entry written for the error handler step
RecordHandler(st, errorStep, stepState, errorResult) ==
  [st EXCEPT !.Steps =
     MapPut(st.Steps, errorStep.Name,
            StepState(stepState.Input,
                      WorkflowOutput(errorResult.Data, NilMap,
                                     errorResult.Error)))]

\* a next input that drops the context
NextInput_noContext(result, stepState) == WorkflowInput(result.Data, NilMap)

\* the input seeded for the next step
NextInput(result, stepState) ==
  WorkflowInput(result.Data, stepState.Input.Context)

\* a move to the next step that hands on the data the step was given
SeedNext_keepData(st, nextStep, result, stepState) ==
  [st EXCEPT !.CurrentStep = nextStep.Name,
             !.Steps = MapPut(st.Steps, nextStep.Name,
                              StepState(WorkflowInput(stepState.Input.Data,
                                                      stepState.Input.Context),
                                        ZeroOutput))]

\* "Move to next step"
SeedNext(st, nextStep, result, stepState) ==
  [st EXCEPT !.CurrentStep = nextStep.Name,
             !.Steps = MapPut(st.Steps, nextStep.Name,
                              StepState(NextInput(result, stepState),
                                        ZeroOutput))]

\* an output that also passes on the data of the failed result
ErrorOutput_withData(result) == WorkflowOutput(result.Data, NilMap, result.Error)

\* the output returned when a step's result carries an error
ErrorOutput(result) == WorkflowOutput(NilMap, NilMap, result.Error)

\* a return that takes the data of the first step
FinalOutput_first(wf, st) ==
  LET lastState == st.Steps[wf.Steps[1].Name]
  IN  WorkflowOutput(lastState.Output.Data, lastState.Input.Context, <<>>)

\* the output returned when the loop has run through
FinalOutput(wf, st) ==
  LET lastState == st.Steps[wf.Steps[Len(wf.Steps)].Name]
  IN  WorkflowOutput(lastState.Output.Data, lastState.Input.Context, <<>>)

\* a loop that gives every error-carrying result a code of its own
StepCall_reclassified(step, st, net) ==
  LET r == ExecuteStep(step, st, net)
  IN  IF r.err = <<>> /\ r.result[1].Error # <<>>
        THEN [r EXCEPT !.result[1].Error[1].Code = "STEP_FAILED"]
        ELSE r

\* result, err := e.ExecuteStep(step, state), as the loop calls it
StepCall(step, st, net) == ExecuteStep(step, st, net)

\* a step that dispatches the error handler whatever it declares
HasErrorHandler_always(step) == TRUE

\* step.ErrorHandler != ""
HasErrorHandler(step) == step.ErrorHandler # ""

\* the error handler branch of one iteration, entered with the failing
\* step's result recorded in st
HandleError(wf, idx, st, log, result, hnet) ==
  LET step == wf.Steps[idx]
      stepState == st.Steps[step.Name]
  IN  IF ~HasErrorHandler(step)
        THEN [pc |-> "done", i |-> idx, state |-> st, calls |-> log,
              ret |-> ChainReturn(<<ErrorOutput(result)>>, <<>>, <<>>)]
      ELSE IF idx + 1 > Len(wf.Steps)
        THEN [pc |-> "done", i |-> idx, state |-> st, calls |-> log,
              ret |-> ChainReturn(<<>>, <<>>, <<IndexOutOfRange>>)]
      ELSE
        LET errorStep == wf.Steps[idx + 1]
            hr == StepCall(errorStep, st, hnet)
            log2 == Append(log, Call("handler", idx + 1, errorStep, st, hnet, hr))
        IN  IF hr.err # <<>>
              THEN [pc |-> "done", i |-> idx, state |-> st, calls |-> log2,
                    ret |-> ChainReturn(<<>>,
                              << <<"error handler ", errorStep.Name, " failed: ">>
                                 \o hr.err[1] >>, <<>>)]
              ELSE [pc |-> "done", i |-> idx,
                    state |-> RecordHandler(st, errorStep, stepState, hr.result[1]),
                    calls |-> log2,
                    ret |-> ChainReturn(<<ErrorOutput(result)>>, <<>>, <<>>)]

\* a loop that stays on the step it has just run
NextIndex_stay(idx) == idx

\* the range loop's next index
NextIndex(idx) == idx + 1

\* one iteration of the loop over workflow.Steps, and the return that
\* follows the last one
Iteration(wf, idx, st, log, net, hnet) ==
  LET step == wf.Steps[idx]
      r == StepCall(step, st, net)
      log1 == Append(log, Call("step", idx, step, st, net, r))
  IN  IF r.err # <<>>
        THEN [pc |-> "done", i |-> idx, state |-> st, calls |-> log1,
              ret |-> ChainReturn(<<>>,
                        << <<"step ", step.Name, " failed: ">> \o r.err[1] >>,
                        <<>>)]
      ELSE
        LET result == r.result[1]
            st1 == RecordOutput(st, step, result)
            stepState == st1.Steps[step.Name]
        IN  IF result.Error # <<>>
              THEN HandleError(wf, idx, st1, log1, result, hnet)
            ELSE IF idx < Len(wf.Steps)
              THEN [pc |-> "running", i |-> NextIndex(idx),
                    state |-> SeedNext(st1, wf.Steps[idx + 1], result, stepState),
                    calls |-> log1, ret |-> NoReturn]
            ELSE
              LET st2 == [st1 EXCEPT !.Completed = TRUE]
              IN  [pc |-> "done", i |-> idx, state |-> st2, calls |-> log1,
                   ret |-> ChainReturn(<<FinalOutput(wf, st2)>>, <<>>, <<>>)]

(***************************************************************************)
(* The workflows directory and the step definitions its files can hold.    *)
(***************************************************************************)
\* the one workflow file the repository ships
WorkflowNames == {"user_signup_chain"}

\* the names a caller can ask for
RequestNames == WorkflowNames \cup {"no_such_chain"}

StepDefs ==
  { Step("create_user", "user_create", TmplOwnInput, ""),
    Step("verify_user", "user_read", TmplCreated, "cleanup_user"),
    Step("create_user", "user_create", TmplSignupCreate, ""),
    Step("notify_user", "send_email", TmplCurrent, ""),
    Step("audit_user", "user_update", TmplUnclosed, "") }

\* the step lists of at most MaxSteps steps
StepLists == UNION { [1..n -> StepDefs] : n \in 0..MaxSteps }

File(kind, steps) == [kind |-> kind, steps |-> steps]

\* os.ReadFile fails
FileMissing == File("missing", <<>>)

\* yaml.Unmarshal fails
FileMalformed == File("malformed", <<>>)

FileContents ==
  {FileMissing, FileMalformed} \cup { File("yaml", sl) : sl \in StepLists }

\* the inputs a caller can pass to ExecuteChain
Inputs == { WorkflowInput("d0", c) : c \in ContextValues }

(***************************************************************************)
(* The state machine.                                                      *)
(***************************************************************************)
NoWorkflow == Workflow(<<>>)

NoState == WorkflowState(EmptyMap, "", FALSE)

NoInput == WorkflowInput(NilMap, NilMap)

\* the goroutines that call ExecuteChain at the same time
Invocations == {"r1", "r2"}

\* the locals of a call of ExecuteChain that has not been made
NoRun ==
  [pc |-> "idle", name |-> "", input |-> NoInput, exists |-> FALSE,
   workflow |-> NoWorkflow, i |-> 0, calls |-> <<>>, ret |-> NoReturn]

\* no direct call, no concurrent call and no reload is under way
AuxInit ==
  /\ direct = <<>>
  /\ runs = [p \in Invocations |-> NoRun]
  /\ cells = [p \in Invocations |-> NoState]
  /\ mapWrite = <<>>
  /\ race = FALSE

\* NewChainExecutor: an empty registry; nothing is running
Init ==
  /\ files \in { [n \in RequestNames |->
                    IF n \in WorkflowNames THEN c ELSE FileMissing] :
                 c \in FileContents }
  /\ workflows = EmptyMap
  /\ loadErr = <<>>
  /\ pc = "idle"
  /\ name = ""
  /\ input = NoInput
  /\ exists = FALSE
  /\ workflow = NoWorkflow
  /\ i = 0
  /\ state = NoState
  /\ calls = <<>>
  /\ ret = NoReturn
  /\ AuxInit

\* a registry that keeps the definition it already has for a name
Register_keepFirst(reg, n, wf) ==
  IF n \in DOMAIN reg THEN reg ELSE MapPut(reg, n, wf)

\* e.workflows[name] = workflow
Register(reg, n, wf) == MapPut(reg, n, wf)

\* ChainExecutor.LoadWorkflow
LoadWorkflow(n) ==
  /\ IF files[n].kind = "missing"
       THEN /\ loadErr' = <<"failed to read workflow file">>
            /\ UNCHANGED workflows
     ELSE IF files[n].kind = "malformed"
       THEN /\ loadErr' = <<"failed to parse workflow">>
            /\ UNCHANGED workflows
     ELSE /\ workflows' = Register(workflows, n, Workflow(files[n].steps))
          /\ loadErr' = <<>>
  /\ UNCHANGED <<files, pc, name, input, exists, workflow, i, state, calls, ret>>
  /\ UNCHANGED aux

\* a lookup that answers a missing name with an empty output
NotFound_emptyOutput(n) == ChainReturn(<<ZeroOutput>>, <<>>, <<>>)

\* the return for a name the registry does not hold
NotFound(n) == ChainReturn(<<>>, << <<"workflow ", n, " not found">> >>, <<>>)

\* ChainExecutor.ExecuteChain from the call to the head of the loop, as it
\* goes with the registry reg: the locals it leaves and the return, if any
Enter(reg, n, in) ==
  IF n \notin DOMAIN reg
    THEN [pc |-> "done", exists |-> FALSE, workflow |-> NoWorkflow, i |-> 0,
          state |-> NoState, ret |-> NotFound(n)]
  ELSE IF Len(reg[n].Steps) = 0
    THEN [pc |-> "done", exists |-> TRUE, workflow |-> reg[n], i |-> 0,
          state |-> NoState,
          ret |-> ChainReturn(<<>>, <<>>, <<IndexOutOfRange>>)]
  ELSE [pc |-> "running", exists |-> TRUE, workflow |-> reg[n], i |-> 1,
        state |-> SeedState(reg[n], in), ret |-> NoReturn]

\* ChainExecutor.ExecuteChain, from the call to the head of the loop
ExecuteChain(n, in) ==
  /\ pc \in {"idle", "done"}
  /\ name' = n
  /\ input' = in
  /\ calls' = <<>>
  /\ LET e == Enter(workflows, n, in)
     IN  /\ exists' = e.exists
         /\ pc' = e.pc
         /\ workflow' = e.workflow
         /\ i' = e.i
         /\ state' = e.state
         /\ ret' = e.ret
  /\ UNCHANGED <<files, workflows, loadErr>>
  /\ UNCHANGED aux

\* the outcomes of the error handler's call, where the iteration makes one
HandlerNets(wf, idx, st, net) ==
  LET r == StepCall(wf.Steps[idx], st, net)
  IN  IF /\ r.err = <<>>
         /\ r.result[1].Error # <<>>
         /\ HasErrorHandler(wf.Steps[idx])
         /\ idx + 1 <= Len(wf.Steps)
        THEN NetOutcomes
        ELSE {NoNet}

\* ChainExecutor.ExecuteChain, one iteration of the loop
ExecuteChainStep ==
  /\ pc = "running"
  /\ \E net \in NetOutcomes :
     \E hnet \in HandlerNets(workflow, i, state, net) :
       LET next == Iteration(workflow, i, state, calls, net, hnet)
       IN  /\ pc' = next.pc
           /\ i' = next.i
           /\ state' = next.state
           /\ calls' = next.calls
           /\ ret' = next.ret
  /\ UNCHANGED <<files, workflows, loadErr, name, input, exists, workflow>>
  /\ UNCHANGED aux

Next ==
  \/ \E n \in RequestNames : LoadWorkflow(n)
  \/ \E n \in RequestNames, in \in Inputs : ExecuteChain(n, in)
  \/ ExecuteChainStep

Spec == Init /\ [][Next]_vars

(***************************************************************************)
(* Views of a run.                                                         *)
(***************************************************************************)
\* the calls of ExecuteStep that posted a request, in order
Dispatches == SelectSeq(calls, LAMBDA c : c.ret.posted # <<>>)

\* the number of steps of the workflow the run resolved
N == Len(workflow.Steps)

\* call k of the run returned a *StepResult
Returned(k) == calls[k].ret.err = <<>> /\ Len(calls[k].ret.result) = 1

\* call k of the run returned a *StepResult that carries an error
Failed(k) == Returned(k) /\ calls[k].ret.result[1].Error # <<>>

\* call k of the run returned a *StepResult that carries no error
Succeeded(k) == Returned(k) /\ calls[k].ret.result[1].Error = <<>>

\* the run is over and no call of it failed in any way
NoFailures ==
  /\ pc = "done"
  /\ exists
  /\ ret.panic = <<>>
  /\ \A k \in DOMAIN calls : Succeeded(k)

\* the first n dispatches of the run are the steps 1..n, each once, in order
InDeclaredOrder(n) ==
  /\ Len(Dispatches) >= n
  /\ \A k \in 1..n : /\ Dispatches[k].idx = k
                     /\ Dispatches[k].step = workflow.Steps[k]

(***************************************************************************)
(* Properties of ExecuteChain and ExecuteStep.                             *)
(***************************************************************************)
\* C1: a run of a workflow of N steps in which nothing fails makes exactly N
\* dispatches, the steps 1..N in declared order, and returns an output whose
\* data is the data decoded from the response of step N.
C1_AllStepsInOrder ==
  NoFailures =>
    /\ Len(Dispatches) = N
    /\ InDeclaredOrder(N)
    /\ \A k \in 1..N : Dispatches[k].kind = "step"
    /\ ret.err = <<>>
    /\ Len(ret.out) = 1
    /\ ret.out[1].Error = <<>>
    /\ ret.out[1].Data = JSONDecode(Dispatches[N].net.body).Data

\* a clean run of at least two steps whose first and last data differ
C1_Witness ==
  /\ NoFailures
  /\ N >= 2
  /\ Len(Dispatches) = N
  /\ Dispatches[1].net.body # Dispatches[N].net.body
  /\ workflow.Steps[1].Name # workflow.Steps[N].Name

\* C2: when step k < N returns a result with an error and declares no error
\* handler, the run ends after exactly k dispatches (steps 1..k) and returns
\* an output whose error is the error of step k.
C2_StopsAtFailingStep ==
  \A k \in DOMAIN calls :
    ( /\ pc = "done"
      /\ calls[k].kind = "step"
      /\ Failed(k)
      /\ calls[k].idx < N
      /\ calls[k].step.ErrorHandler = "" )
    => /\ Len(Dispatches) = calls[k].idx
       /\ InDeclaredOrder(calls[k].idx)
       /\ k = Len(calls)
       /\ ret.err = <<>>
       /\ ret.panic = <<>>
       /\ Len(ret.out) = 1
       /\ ret.out[1].Error = calls[k].ret.result[1].Error

\* step 2 of 3 has failed with LAMBDA_ERROR and has no error handler
C2_Witness ==
  /\ pc = "done"
  /\ N = 3
  /\ Len(calls) = 2
  /\ calls[2].kind = "step"
  /\ Failed(2)
  /\ calls[2].step.ErrorHandler = ""
  /\ calls[2].ret.result[1].Error[1].Code = "LAMBDA_ERROR"

\* the run is over and call k is the call of a workflow step whose result
\* carries an error
StepFailedAt(k) ==
  /\ pc = "done"
  /\ k \in DOMAIN calls
  /\ calls[k].kind = "step"
  /\ Failed(k)

\* the output that carries the error of call k and nothing else
OnlyErrorOf(k) == WorkflowOutput(NilMap, NilMap, calls[k].ret.result[1].Error)

\* C3: when step k, at any position, declares an error handler and its
\* result carries an error, the run makes exactly k+1 dispatches (steps 1..k,
\* then the next positional step as recovery step), records the recovery
\* step's outcome under the recovery step's name, and returns an output that
\* reports the error of step k.
C3_HandlerAtAnyPosition ==
  \A k \in DOMAIN calls :
    (StepFailedAt(k) /\ calls[k].step.ErrorHandler # "")
    => /\ Len(Dispatches) = calls[k].idx + 1
       /\ InDeclaredOrder(calls[k].idx)
       /\ Len(calls) = k + 1
       /\ calls[k + 1].kind = "handler"
       /\ calls[k + 1].idx = calls[k].idx + 1
       /\ calls[k + 1].step.Name \in DOMAIN state.Steps
       /\ Returned(k + 1)
       /\ state.Steps[calls[k + 1].step.Name].Output.Data =
            calls[k + 1].ret.result[1].Data
       /\ state.Steps[calls[k + 1].step.Name].Output.Error =
            calls[k + 1].ret.result[1].Error
       /\ Len(ret.out) = 1
       /\ ret.out[1].Error = calls[k].ret.result[1].Error

\* C4 as stated, for the runs in which the error handler was called:
\* whenever a step's result carries an error the run returns an output that
\* carries only that error, whatever the error handler's call came to, a
\* fatal failure included.
C4_OnlyOriginalErrorWhateverHandler ==
  \A k \in DOMAIN calls :
    (StepFailedAt(k) /\ Len(calls) = k + 1 /\ calls[k + 1].kind = "handler") =>
      /\ ret.out = <<OnlyErrorOf(k)>>
      /\ ret.err = <<>>
      /\ ret.panic = <<>>

\* C4, amended: whenever a step's result carries an error the chain
\* terminates with that step; the run returns an output that carries only
\* that error when no error handler is declared or the error handler's call
\* returned a result (with or without an error), and it returns a failure and
\* no output when the error handler's call failed fatally.
C4_OnlyOriginalErrorUnlessHandlerFatal ==
  \A k \in DOMAIN calls :
    StepFailedAt(k) =>
      /\ \A j \in DOMAIN calls : calls[j].kind = "step" => calls[j].idx <= calls[k].idx
      /\ Len(calls) <= k + 1
      /\ (calls[k].step.ErrorHandler = "" \/ (Len(calls) = k + 1 /\ Returned(k + 1)))
           => /\ ret.out = <<OnlyErrorOf(k)>>
              /\ ret.err = <<>>
              /\ ret.panic = <<>>
      /\ (Len(calls) = k + 1 /\ ~Returned(k + 1))
           => /\ ret.out = <<>>
              /\ Len(ret.err) = 1
              /\ ret.panic = <<>>

\* a step failed with data in its result, its error handler ran and returned
\* a result with an error of its own
C4_Witness ==
  /\ pc = "done"
  /\ Len(calls) >= 2
  /\ StepFailedAt(Len(calls) - 1)
  /\ calls[Len(calls) - 1].ret.result[1].Data # NilMap
  /\ calls[Len(calls)].kind = "handler"
  /\ Failed(Len(calls))
  /\ Len(ret.out) = 1

\* C5: the context seeded into the input of step k+1 is the context of the
\* input of step k, whatever data step k returned.
C5_ContextCarried ==
  /\ \A k \in DOMAIN calls :
       (k < Len(calls) /\ calls[k].kind = "step" /\ calls[k + 1].kind = "step")
       => /\ Len(calls[k].input) = 1
          /\ Len(calls[k + 1].input) = 1
          /\ calls[k + 1].input[1].Context = calls[k].input[1].Context
  /\ (pc = "running" /\ i > 1)
       => /\ calls[Len(calls)].idx = i - 1
          /\ Succeeded(Len(calls))
          /\ workflow.Steps[i].Name \in DOMAIN state.Steps
          /\ state.Steps[workflow.Steps[i].Name].Input.Context =
               calls[Len(calls)].input[1].Context

\* the second step is about to run on a context the caller supplied, after a
\* first step that returned data
C5_Witness ==
  /\ pc = "running"
  /\ i = 2
  /\ calls[1].input[1].Context = "c1"
  /\ calls[1].ret.result[1].Data = "d2"
  /\ state.Steps[workflow.Steps[2].Name].Input.Context = "c1"

\* C6: when the network call of a step fails at transport level, ExecuteStep
\* returns a failure and no result, ExecuteChain returns a failure and no
\* output, the call is not repeated and nothing is dispatched after it, the
\* error handler included.
C6_TransportFailureIsFatal ==
  \A k \in DOMAIN calls :
    calls[k].net.kind \in {"post_fail", "read_fail"} =>
      /\ calls[k].ret.result = <<>>
      /\ Len(calls[k].ret.err) = 1
      /\ pc = "done"
      /\ ret.out = <<>>
      /\ Len(ret.err) = 1
      /\ ret.panic = <<>>
      /\ k = Len(calls)
      /\ \A j \in 1..(k - 1) : calls[j].idx # calls[k].idx

\* the call of a step that declares an error handler failed at transport
\* level
C6_Witness ==
  /\ pc = "done"
  /\ Len(calls) = 2
  /\ calls[2].kind = "step"
  /\ calls[2].step.ErrorHandler # ""
  /\ calls[2].net.kind = "read_fail"
  /\ N = 3

\* C7: a response is classified by the first rule that matches: Content-Type
\* not application/json gives INVALID_RESPONSE_TYPE, else status not OK gives
\* LAMBDA_ERROR with the body in the message, else an undecodable body gives
\* INVALID_JSON, else the decoded result as it is; the first three carry the
\* step's name and are results, not failures.
C7_ClassificationOrder ==
  \A k \in DOMAIN calls :
    calls[k].net.kind = "response" =>
      LET c == calls[k]
          made(code) == /\ c.ret.err = <<>>
                        /\ Len(c.ret.result) = 1
                        /\ Len(c.ret.result[1].Error) = 1
                        /\ c.ret.result[1].Error[1].Code = code
                        /\ c.ret.result[1].Error[1].Step = c.step.Name
      IN  IF c.net.ctype # "application/json"
            THEN made("INVALID_RESPONSE_TYPE")
          ELSE IF c.net.status # 200
            THEN /\ made("LAMBDA_ERROR")
                 /\ \E m \in DOMAIN c.ret.result[1].Error[1].Message :
                      c.ret.result[1].Error[1].Message[m] = c.net.body
          ELSE IF ~JSONValid(c.net.body)
            THEN made("INVALID_JSON")
          ELSE /\ c.ret.err = <<>>
               /\ c.ret.result = <<JSONDecode(c.net.body)>>

\* a response with the wrong Content-Type and a failure status was classified
C7_Witness ==
  \E k \in DOMAIN calls :
    /\ calls[k].net.kind = "response"
    /\ calls[k].net.ctype # "application/json"
    /\ calls[k].net.status # 200
    /\ calls[k].ret.result[1].Error[1].Code = "INVALID_RESPONSE_TYPE"

\* the response of call k is well-typed and OK and its body does not decode
Undecodable(k) ==
  /\ calls[k].net.kind = "response"
  /\ calls[k].net.ctype = "application/json"
  /\ calls[k].net.status = 200
  /\ ~JSONValid(calls[k].net.body)

\* C8: a body that does not decode is a recoverable failure of the step:
\* ExecuteStep returns a result with code INVALID_JSON and no failure, and
\* ExecuteChain records it, hands it to the error handler if one is declared,
\* and returns an output that carries the error, not a failure.
C8_InvalidJSONRecoverable ==
  \A k \in DOMAIN calls :
    Undecodable(k) =>
      /\ Failed(k)
      /\ calls[k].ret.result[1].Error[1].Code = "INVALID_JSON"
      /\ (pc = "done" /\ calls[k].kind = "step") =>
           /\ state.Steps[calls[k].step.Name].Output.Error =
                calls[k].ret.result[1].Error
           /\ calls[k].step.ErrorHandler # "" =>
                (Len(calls) = k + 1 /\ calls[k + 1].kind = "handler")
           /\ Len(ret.out) = 1
           /\ ret.out[1].Error = calls[k].ret.result[1].Error
           /\ ret.err = <<>>

\* C9: every call of ExecuteStep ends in exactly one of: a result without
\* error and no failure, a result with an error and no failure, a failure and
\* no result.
C9_OneOutcomePerCall ==
  \A k \in DOMAIN calls :
    LET r == calls[k].ret
        success == Len(r.result) = 1 /\ r.err = <<>> /\ r.result[1].Error = <<>>
        recoverable == Len(r.result) = 1 /\ r.err = <<>> /\ r.result[1].Error # <<>>
        fatal == r.result = <<>> /\ Len(r.err) = 1
    IN  /\ success \/ recoverable \/ fatal
        /\ ~(success /\ recoverable)
        /\ ~(success /\ fatal)
        /\ ~(recoverable /\ fatal)
        /\ Len(r.result) + Len(r.err) = 1

\* one run has seen a success, then a recoverable error, then a fatal failure
C9_Witness ==
  /\ Len(calls) = 3
  /\ Succeeded(1)
  /\ Failed(2)
  /\ calls[3].ret.result = <<>>
  /\ Len(calls[3].ret.err) = 1

\* C10: ExecuteChain returns exactly one of an output and a failure: an
\* output with an error and no failure when a step reported a failure, a
\* failure and no output on workflow-not-found, template, routing and
\* transport errors.
C10_OutputXorFailure ==
  pc = "done" =>
    /\ Len(ret.out) + Len(ret.err) = 1
    /\ ret.panic = <<>>
    /\ (\E k \in DOMAIN calls : calls[k].kind = "step" /\ Failed(k))
         => (Len(ret.out) = 1 /\ ret.out[1].Error # <<>> /\ ret.err = <<>>)
    /\ (~exists \/ (\E k \in DOMAIN calls : calls[k].kind = "step" /\ ~Returned(k)))
         => (ret.out = <<>> /\ Len(ret.err) = 1)

\* C11: whenever ExecuteChain returns an output that carries an error, the
\* error's step field is the name of the workflow step whose dispatch
\* produced the failure and its code is not empty, for an error made by
\* ExecuteStep and for an error the lambda sent in its body alike.
C11_ErrorNamesFailingStep ==
  ( /\ pc = "done"
    /\ Len(ret.out) = 1
    /\ ret.out[1].Error # <<>> )
  => \E k \in DOMAIN calls :
       /\ calls[k].kind = "step"
       /\ Failed(k)
       /\ ret.out[1].Error[1].Step = calls[k].step.Name
       /\ ret.out[1].Error[1].Code # ""

\* call k of the run is the call of a step whose lambda has no port
Unrouted(k) == calls[k].step.Lambda \notin DOMAIN ports

\* C12: when a step's lambda has no known address, ExecuteStep fails without
\* a network call for that step, and ExecuteChain returns an invocation-level
\* failure and no output, having dispatched no later step and no error
\* handler.
C12_UnknownLambdaIsFatal ==
  \A k \in DOMAIN calls :
    Unrouted(k)
    => /\ calls[k].ret.posted = <<>>
       /\ calls[k].ret.result = <<>>
       /\ Len(calls[k].ret.err) = 1
       /\ k = Len(calls)
       /\ pc = "done"
       /\ ret.out = <<>>
       /\ ret.panic = <<>>
       /\ Len(ret.err) = 1
       /\ \A j \in DOMAIN Dispatches : Dispatches[j].idx < calls[k].idx

\* the second step of three names a lambda without a port, after a first
\* step that was dispatched, and its template renders
C12_Witness ==
  /\ pc = "done"
  /\ N = 3
  /\ Len(calls) = 2
  /\ Len(Dispatches) = 1
  /\ Unrouted(2)
  /\ calls[2].ret.err = << <<"no port mapping found for lambda ", calls[2].step.Lambda>> >>

\* call k of the run is the call of a step whose template cannot be rendered
Unrenderable(k) ==
  \/ ~TemplateParse(calls[k].step.InputTemplate)
  \/ \E c \in DOMAIN calls[k].step.InputTemplate.Chains :
       calls[k].step.InputTemplate.Chains[c][1] \notin StateFields

\* C13: when a step's template cannot be rendered (it does not parse, or it
\* does not evaluate), nothing is dispatched for that step or after it, and
\* ExecuteChain returns an invocation-level failure that names the step, also
\* when the step is the one executed as error handler.
C13_UnrenderableTemplateIsFatal ==
  \A k \in DOMAIN calls :
    Unrenderable(k)
    => /\ calls[k].ret.posted = <<>>
       /\ calls[k].ret.result = <<>>
       /\ k = Len(calls)
       /\ pc = "done"
       /\ ret.out = <<>>
       /\ ret.panic = <<>>
       /\ Len(ret.err) = 1
       /\ \E w \in DOMAIN ret.err[1] : ret.err[1][w] = calls[k].step.Name
       /\ \A j \in DOMAIN Dispatches : Dispatches[j].idx < calls[k].idx

\* a step whose template parses and does not evaluate has been executed as
\* the error handler of a failed step
C13_Witness ==
  /\ pc = "done"
  /\ Len(calls) = 2
  /\ calls[2].kind = "handler"
  /\ Unrenderable(2)
  /\ TemplateParse(calls[2].step.InputTemplate)
  /\ calls[2].step.Name # calls[1].step.Name
  /\ ret.err[1][1] = "error handler "

\* a step that is not a stuttering step and belongs to the caller of
\* ExecuteChain or to the loop
RunStep == <<pc, name, input, exists, workflow, i, state, calls, ret>>' #
           <<pc, name, input, exists, workflow, i, state, calls, ret>>

\* C14: ExecuteChain with a name the registry does not hold fails with a
\* workflow-not-found failure, makes no dispatch at all, and leaves the
\* registry unchanged.
C14_UnknownWorkflowNotFound ==
  [][ ( /\ pc \in {"idle", "done"}
        /\ RunStep
        /\ name' \notin DOMAIN workflows )
      => /\ pc' = "done"
         /\ ret'.out = <<>>
         /\ ret'.panic = <<>>
         /\ ret'.err = << <<"workflow ", name', " not found">> >>
         /\ calls' = <<>>
         /\ workflows' = workflows ]_vars

\* a run for a name that is not registered has ended, beside a registry that
\* holds another workflow
C14_Witness ==
  /\ pc = "done"
  /\ ~exists
  /\ name \notin DOMAIN workflows
  /\ workflows # EmptyMap
  /\ Len(ret.err) = 1

\* C20: a run only moves forward: the position of the current step never
\* decreases, no step is dispatched twice in one run, the current step
\* advances only after the previous step's result carried no error, and once
\* the run has ended nothing more is dispatched in it.
C20_ForwardOnly ==
  /\ [](\A j, k \in DOMAIN calls : j < k => calls[j].idx < calls[k].idx)
  /\ [][ (pc = "running" /\ RunStep)
         => /\ i' >= i
            /\ name' = name /\ workflow' = workflow
            /\ Len(calls') > Len(calls)
            /\ SubSeq(calls', 1, Len(calls)) = calls
            /\ (pc' = "running"
                  => /\ i' = i + 1
                     /\ Len(calls') = Len(calls) + 1
                     /\ calls'[Len(calls')].idx = i
                     /\ calls'[Len(calls')].ret.err = <<>>
                     /\ Len(calls'[Len(calls')].ret.result) = 1
                     /\ calls'[Len(calls')].ret.result[1].Error = <<>>
                     /\ state'.CurrentStep = workflow.Steps[i'].Name) ]_vars
  /\ [][ pc = "done" => (calls' = calls \/ (calls' = <<>> /\ RunStep)) ]_vars

\* a run of three steps has ended after its second step failed and the third
\* was dispatched as error handler
C20_Witness ==
  /\ pc = "done"
  /\ N = 3
  /\ Len(Dispatches) = 3
  /\ Failed(2)
  /\ calls[3].kind = "handler"
  /\ i = 2

\* C19: for every registered workflow and every sequence of lambda outcomes
\* in which each dispatch returns, a run ends by returning an output or a
\* failure, never by aborting abnormally, after at most N dispatches (stated
\* here for the workflows that have at least one step).
C19_RunEndsWithReturn ==
  /\ pc = "running" => (ENABLED ExecuteChainStep /\ Len(Dispatches) < N)
  /\ (pc = "done" /\ exists /\ N >= 1)
       => /\ ret.panic = <<>>
          /\ Len(ret.out) + Len(ret.err) = 1
          /\ Len(Dispatches) <= N

(***************************************************************************)
(* ExecuteStep called directly, beside the same step's call in a run.      *)
(***************************************************************************)
\* longest step list of a workflow file where a second caller is modelled
MaxShort == 2

\* {{.Steps.create_user.Output.Error.Code}}
TmplCreatedCode ==
  Template(TRUE, << <<"Steps", "create_user", "Output", "Error", "Code">> >>)

\* the step definitions of the runs a direct call is compared with
DirectStepDefs ==
  StepDefs \cup { Step("check_user", "user_read", TmplCreatedCode, "") }

\* the files of at most MaxShort steps over DirectStepDefs
DirectFileContents ==
  {FileMissing, FileMalformed} \cup
  { File("yaml", sl) :
      sl \in UNION { [1..n -> DirectStepDefs] : n \in 0..MaxShort } }

\* the state of one step that a direct caller builds
OneStepState(step, in) ==
  WorkflowState(MapPut(EmptyMap, step.Name, StepState(in, ZeroOutput)),
                step.Name, FALSE)

DirectInit ==
  /\ files \in { [n \in RequestNames |->
                    IF n \in WorkflowNames THEN c ELSE FileMissing] :
                 c \in DirectFileContents }
  /\ workflows = EmptyMap
  /\ loadErr = <<>>
  /\ pc = "idle"
  /\ name = ""
  /\ input = NoInput
  /\ exists = FALSE
  /\ workflow = NoWorkflow
  /\ i = 0
  /\ state = NoState
  /\ calls = <<>>
  /\ ret = NoReturn
  /\ AuxInit

\* the executor's own operations, while no direct call is outstanding
ExecutorStep ==
  /\ direct = <<>>
  /\ Next

\* ExecuteStep called directly for the step of call k of the finished run,
\* with a one-step state that holds that step's input, the lambda answering
\* as it did in the run (in any way, where the run never reached it)
DirectExecuteStep(k) ==
  /\ pc = "done"
  /\ direct = <<>>
  /\ k \in DOMAIN calls
  /\ \E net \in IF calls[k].ret.posted # <<>> THEN {calls[k].net}
                                             ELSE NetOutcomes :
       LET in == IF calls[k].input = <<>> THEN NoInput ELSE calls[k].input[1]
       IN  direct' = << [k |-> k,
                         ret |-> ExecuteStep(calls[k].step,
                                             OneStepState(calls[k].step, in),
                                             net)] >>
  /\ UNCHANGED <<files, workflows, loadErr, pc, name, input, exists, workflow,
                 i, state, calls, ret, runs, cells, mapWrite, race>>

\* the direct caller has taken its return
DirectReturn ==
  /\ direct # <<>>
  /\ direct' = <<>>
  /\ UNCHANGED <<files, workflows, loadErr, pc, name, input, exists, workflow,
                 i, state, calls, ret, runs, cells, mapWrite, race>>

DirectNext ==
  \/ ExecutorStep
  \/ \E k \in 1..MaxShort : DirectExecuteStep(k)
  \/ DirectReturn

SpecDirect == DirectInit /\ [][DirectNext]_vars

\* the template of a call's step was rendered: neither Parse nor Execute
\* failed
RenderedIn(r) ==
  r.err \notin { << <<"failed to parse input template">> >>,
                 << <<"failed to execute template">> >> }

\* the direct call and the run's call have returned the same *StepResult or
\* the same error
SameOutcome ==
  /\ direct[1].ret.result = calls[direct[1].k].ret.result
  /\ direct[1].ret.err = calls[direct[1].k].ret.err

\* C17 as claimed: ExecuteStep called directly with a one-step state that
\* holds only the step's input returns the same *StepResult, or the same
\* fatal failure, as that step's call inside a run of ExecuteChain, the
\* lambda behaving alike.
C17_DirectSameAsChained ==
  direct # <<>> => SameOutcome

\* C17: ExecuteStep called directly with a one-step state that holds only
\* the step's input returns the same *StepResult, or the same fatal failure,
\* as that step's call inside a run of ExecuteChain, the lambda behaving
\* alike, whenever the step's template is rendered against both states or
\* against neither; the loop adds no classification of its own.
C17_DirectSameAsChainedWhenRenderedAlike ==
  ( /\ direct # <<>>
    /\ RenderedIn(direct[1].ret) <=> RenderedIn(calls[direct[1].k].ret) )
  => SameOutcome

\* a direct call has repeated the second call of a run, which was dispatched
\* and came back with an error made by ExecuteStep
C17_Witness ==
  /\ direct # <<>>
  /\ direct[1].k = 2
  /\ calls[2].ret.posted # <<>>
  /\ Failed(2)
  /\ calls[2].ret.result[1].Error[1].Code = "INVALID_JSON"
  /\ SameOutcome

(***************************************************************************)
(* LoadWorkflow over a workflows directory whose files change.             *)
(***************************************************************************)
\* the workflow files of the directory
LoadNames == WorkflowNames \cup {"user_cleanup_chain"}

\* the step definitions the files of this directory are written with
LoadStepDefs ==
  { Step("create_user", "user_create", TmplOwnInput, ""),
    Step("verify_user", "user_read", TmplCreated, "cleanup_user") }

\* the contents a file of this directory can have
LoadFileContents ==
  {FileMissing, FileMalformed} \cup
  { File("yaml", sl) :
      sl \in UNION { [1..n -> LoadStepDefs] : n \in 0..MaxShort } }

LoadInit ==
  /\ files \in [LoadNames -> LoadFileContents]
  /\ workflows = EmptyMap
  /\ loadErr = <<>>
  /\ pc = "idle"
  /\ name = ""
  /\ input = NoInput
  /\ exists = FALSE
  /\ workflow = NoWorkflow
  /\ i = 0
  /\ state = NoState
  /\ calls = <<>>
  /\ ret = NoReturn
  /\ AuxInit

\* the file of workflow n is written, replaced or removed on disk
EditFile(n, c) ==
  /\ c # files[n]
  /\ files' = [files EXCEPT ![n] = c]
  /\ UNCHANGED <<workflows, loadErr, pc, name, input, exists, workflow, i,
                 state, calls, ret, aux>>

LoadNext ==
  \/ \E n \in LoadNames : LoadWorkflow(n)
  \/ \E n \in LoadNames, c \in LoadFileContents : EditFile(n, c)

SpecLoad == LoadInit /\ [][LoadNext]_vars

\* what LoadWorkflow(n) has to leave behind, by the file it found
LoadedAsFound(n) ==
  IF files[n].kind = "missing"
    THEN /\ loadErr' = <<"failed to read workflow file">>
         /\ workflows' = workflows
  ELSE IF files[n].kind = "malformed"
    THEN /\ loadErr' = <<"failed to parse workflow">>
         /\ workflows' = workflows
  ELSE /\ loadErr' = <<>>
       /\ DOMAIN workflows' = DOMAIN workflows \cup {n}
       /\ workflows'[n] = Workflow(files[n].steps)
       /\ \A m \in DOMAIN workflows \ {n} : workflows'[m] = workflows[m]
       /\ (n \in DOMAIN workflows /\ workflows[n] = Workflow(files[n].steps))
            => workflows' = workflows

\* C18: after LoadWorkflow(name) succeeds the registry entry for name is the
\* definition just parsed, in place of any earlier one, and loading the same
\* unchanged source again leaves the registry as it was; after it fails, by
\* a read failure or by a parse failure, which are distinct failures, the
\* registry is unchanged and an earlier definition of name stays in place;
\* the entries of other names never change.
C18_LoadReplacesOrLeaves ==
  [][ \A n \in LoadNames : LoadWorkflow(n) => LoadedAsFound(n) ]_vars

\* a load has just failed to parse a file whose earlier definition is still
\* registered, beside another workflow with a different definition
C18_Witness ==
  /\ loadErr = <<"failed to parse workflow">>
  /\ DOMAIN workflows = LoadNames
  /\ files["user_signup_chain"] = FileMalformed
  /\ Len(workflows["user_signup_chain"].Steps) = 2
  /\ workflows["user_cleanup_chain"] # workflows["user_signup_chain"]
  /\ files["user_cleanup_chain"].kind = "yaml"
  /\ workflows["user_cleanup_chain"] # Workflow(files["user_cleanup_chain"].steps)

(***************************************************************************)
(* LoadWorkflow called again while ExecuteChain is being called: the map   *)
(* e.workflows is written at part_002:47 and read at part_002:122, and the *)
(* executor has no lock.                                                   *)
(***************************************************************************)
\* the contents of the workflow file that is reloaded: a definition of one
\* step, and the same with a second step that is the first one's successor
\* and error handler
ReloadFileContents ==
  { File("yaml", << Step("create_user", "user_create", TmplOwnInput, "") >>),
    File("yaml", << Step("create_user", "user_create", TmplOwnInput,
                         "verify_user"),
                    Step("verify_user", "user_read", TmplCreated, "") >>) }

\* the registry NewServer has loaded from the files
LoadedAtStart(f) ==
  [n \in { m \in DOMAIN f : f[m].kind = "yaml" } |-> Workflow(f[n].steps)]

\* the server is up: the registry holds what NewServer loaded
ReloadInit ==
  /\ files \in { [n \in RequestNames |->
                    IF n \in WorkflowNames THEN c ELSE FileMissing] :
                 c \in ReloadFileContents }
  /\ workflows = LoadedAtStart(files)
  /\ loadErr = <<>>
  /\ pc = "idle"
  /\ name = ""
  /\ input = NoInput
  /\ exists = FALSE
  /\ workflow = NoWorkflow
  /\ i = 0
  /\ state = NoState
  /\ calls = <<>>
  /\ ret = NoReturn
  /\ AuxInit

\* the workflow file is rewritten on disk
RewriteFile(n, c) ==
  /\ pc # "crashed"
  /\ EditFile(n, c)

\* LoadWorkflow(n) has read and parsed the file and enters the assignment
\* e.workflows[name] = workflow
ReloadBegin(n) ==
  /\ pc # "crashed"
  /\ mapWrite = <<>>
  /\ files[n].kind = "yaml"
  /\ mapWrite' = << [name |-> n, workflow |-> Workflow(files[n].steps)] >>
  /\ UNCHANGED <<files, workflows, loadErr, pc, name, input, exists, workflow,
                 i, state, calls, ret, direct, runs, cells, race>>

\* the assignment e.workflows[name] = workflow is complete
ReloadEnd ==
  /\ pc # "crashed"
  /\ mapWrite # <<>>
  /\ workflows' = Register(workflows, mapWrite[1].name, mapWrite[1].workflow)
  /\ loadErr' = <<>>
  /\ mapWrite' = <<>>
  /\ UNCHANGED <<files, pc, name, input, exists, workflow, i, state, calls,
                 ret, direct, runs, cells, race>>

\* ExecuteChain called while no assignment to e.workflows is in progress
QuietExecuteChain(n, in) ==
  /\ mapWrite = <<>>
  /\ ExecuteChain(n, in)

\* ExecuteChain called while the assignment to e.workflows is in progress:
\* the read of e.workflows[name] races with it, and sees the map before the
\* write or after it, or the runtime detects the race and ends the process
\* (fatal error: concurrent map read and map write)
RacingExecuteChain(n, in) ==
  /\ mapWrite # <<>>
  /\ pc \in {"idle", "done"}
  /\ race' = TRUE
  /\ name' = n
  /\ input' = in
  /\ calls' = <<>>
  /\ \/ \E reg \in {workflows,
                    Register(workflows, mapWrite[1].name, mapWrite[1].workflow)} :
          LET e == Enter(reg, n, in)
          IN  /\ exists' = e.exists
              /\ pc' = e.pc
              /\ workflow' = e.workflow
              /\ i' = e.i
              /\ state' = e.state
              /\ ret' = e.ret
     \/ /\ pc' = "crashed"
        /\ exists' = FALSE
        /\ workflow' = NoWorkflow
        /\ i' = 0
        /\ state' = NoState
        /\ ret' = NoReturn
  /\ UNCHANGED <<files, workflows, loadErr, direct, runs, cells, mapWrite>>

ReloadNext ==
  \/ \E c \in ReloadFileContents : RewriteFile("user_signup_chain", c)
  \/ ReloadBegin("user_signup_chain")
  \/ ReloadEnd
  \/ \E n \in RequestNames, in \in Inputs : QuietExecuteChain(n, in)
  \/ \E n \in RequestNames, in \in Inputs : RacingExecuteChain(n, in)
  \/ ExecuteChainStep

SpecReload == ReloadInit /\ [][ReloadNext]_vars

\* C16: a reload by LoadWorkflow while calls of ExecuteChain are in flight is
\* a concurrency-safe swap: the write of the registry never overlaps an
\* unsynchronized read of it by a call of ExecuteChain (and so never ends the
\* process), and a run in flight keeps executing the steps of the definition
\* it resolved when it started.
C16_ReloadIsSafeSwap ==
  /\ ~race
  /\ pc # "crashed"
  /\ \A k \in DOMAIN calls : calls[k].step = workflow.Steps[calls[k].idx]

(***************************************************************************)
(* ExecuteChain called by several goroutines at once on one executor, as   *)
(* handleWorkflow does for concurrent requests.  Each call has its own     *)
(* locals (runs) and the WorkflowState it allocated (cells).               *)
(***************************************************************************)
\* the input of each caller
ConcInput(p) == IF p = "r1" THEN WorkflowInput("d0", NilMap)
                            ELSE WorkflowInput("d0", "c1")

\* the lambda outcomes of the concurrent runs
ConcNets ==
  { Net("post_fail", "", 0, ""),
    Net("response", JSONContentType, StatusOK, BodyData1),
    Net("response", JSONContentType, StatusOK, BodyData2),
    Net("response", JSONContentType, 500, BodyData1) }

\* the files of at most MaxShort steps over LoadStepDefs
ConcFileContents ==
  { File("yaml", sl) :
      sl \in UNION { [1..n -> LoadStepDefs] : n \in 1..MaxShort } }

\* a WorkflowState kept once on the executor and used by every call
CellOf_shared(p) == "r1"

\* state := &types.WorkflowState{...}: the state a call works on is the one
\* it has allocated itself
CellOf(p) == p

\* the server is up: the registry holds what NewServer loaded
ConcInit ==
  /\ files \in { [n \in RequestNames |->
                    IF n \in WorkflowNames THEN c ELSE FileMissing] :
                 c \in ConcFileContents }
  /\ workflows = LoadedAtStart(files)
  /\ loadErr = <<>>
  /\ pc = "idle"
  /\ name = ""
  /\ input = NoInput
  /\ exists = FALSE
  /\ workflow = NoWorkflow
  /\ i = 0
  /\ state = NoState
  /\ calls = <<>>
  /\ ret = NoReturn
  /\ AuxInit

\* caller p calls ExecuteChain(n, ConcInput(p))
ConcExecuteChain(p, n) ==
  /\ runs[p].pc = "idle"
  /\ LET e == Enter(workflows, n, ConcInput(p))
     IN  /\ runs' = [runs EXCEPT ![p] =
                       [pc |-> e.pc, name |-> n, input |-> ConcInput(p),
                        exists |-> e.exists, workflow |-> e.workflow,
                        i |-> e.i, calls |-> <<>>, ret |-> e.ret]]
         /\ cells' = IF e.pc = "running"
                       THEN [cells EXCEPT ![CellOf(p)] = e.state]
                       ELSE cells
  /\ UNCHANGED <<files, workflows, loadErr, pc, name, input, exists, workflow,
                 i, state, calls, ret, direct, mapWrite, race>>

\* one iteration of the loop of caller p
ConcExecuteChainStep(p) ==
  /\ runs[p].pc = "running"
  /\ \E net \in ConcNets :
     \E hnet \in HandlerNets(runs[p].workflow, runs[p].i, cells[CellOf(p)], net)
                   \cap (ConcNets \cup {NoNet}) :
       LET next == Iteration(runs[p].workflow, runs[p].i, cells[CellOf(p)],
                             runs[p].calls, net, hnet)
       IN  /\ runs' = [runs EXCEPT ![p].pc = next.pc,
                                   ![p].i = next.i,
                                   ![p].calls = next.calls,
                                   ![p].ret = next.ret]
           /\ cells' = [cells EXCEPT ![CellOf(p)] = next.state]
  /\ UNCHANGED <<files, workflows, loadErr, pc, name, input, exists, workflow,
                 i, state, calls, ret, direct, mapWrite, race>>

ConcNext ==
  \/ \E p \in Invocations, n \in RequestNames : ConcExecuteChain(p, n)
  \/ \E p \in Invocations : ConcExecuteChainStep(p)

SpecConc == ConcInit /\ [][ConcNext]_vars

\* the lambda outcome the error handler's call of log entry k met
HandlerNetOf(log, k) ==
  IF k + 1 <= Len(log) /\ log[k + 1].kind = "handler"
    THEN log[k + 1].net ELSE NoNet

\* the run of wf replayed on its own from the k-th entry of log on, with the
\* lambda outcomes the log records
RECURSIVE AloneFrom(_, _, _, _)
AloneFrom(wf, rec, log, k) ==
  IF k > Len(log) \/ rec.pc # "running"
    THEN rec
    ELSE AloneFrom(wf,
                   Iteration(wf, rec.i, rec.state, rec.calls, log[k].net,
                             HandlerNetOf(log, k)),
                   log,
                   IF k + 1 <= Len(log) /\ log[k + 1].kind = "handler"
                     THEN k + 2 ELSE k + 1)

\* what caller p would hold had it run alone and met the same lambda
\* outcomes
Alone(p) ==
  LET e == Enter(workflows, runs[p].name, runs[p].input)
  IN  AloneFrom(e.workflow,
                [pc |-> e.pc, i |-> e.i, state |-> e.state, calls |-> <<>>,
                 ret |-> e.ret],
                runs[p].calls, 1)

\* C15: in any interleaving of the steps of two concurrent calls of
\* ExecuteChain on one executor, each call owns its WorkflowState: its
\* dispatches, its recorded state and its return are those it would have
\* alone with the same lambda responses, and the state of a call changes
\* only by that call's own steps.
C15_RunsAreIsolated ==
  /\ [](\A p \in Invocations :
          runs[p].pc # "idle"
          => /\ Alone(p).pc = runs[p].pc
             /\ Alone(p).i = runs[p].i
             /\ Alone(p).calls = runs[p].calls
             /\ Alone(p).ret = runs[p].ret
             /\ (runs[p].exists /\ Len(runs[p].workflow.Steps) > 0)
                  => Alone(p).state = cells[p])
  /\ [][ \A p \in Invocations : runs'[p] = runs[p] => cells'[p] = cells[p] ]_vars

\* both calls are in flight, each after one dispatch, on states that differ
C15_Witness ==
  /\ \A p \in Invocations : /\ runs[p].pc = "running"
                            /\ Len(runs[p].calls) = 1
                            /\ runs[p].calls[1].ret.posted # <<>>
  /\ cells["r1"] # cells["r2"]
  /\ runs["r1"].calls[1].net # runs["r2"].calls[1].net

(***************************************************************************)
(* Properties of the registry's definitions and of the recorded state.     *)
(***************************************************************************)
\* the step names of wf are pairwise distinct
UniqueNames(wf) ==
  \A j, k \in DOMAIN wf.Steps : j # k => wf.Steps[j].Name # wf.Steps[k].Name

\* C21: after any sequence of LoadWorkflow calls, every definition in the
\* registry has at least one step and pairwise distinct step names, so
\* ExecuteChain never runs on a definition that has not.
C21_RegistryWellFormed ==
  /\ \A n \in DOMAIN workflows : /\ Len(workflows[n].Steps) >= 1
                                 /\ UniqueNames(workflows[n])
  /\ exists => (Len(workflow.Steps) >= 1 /\ UniqueNames(workflow))

\* C22: on a run in which all N steps succeed, the context of the returned
\* output is the last step's recorded input context, and that is the context
\* of the input the caller passed to ExecuteChain, whatever data the steps
\* returned.
C22_OutputContextIsCallersContext ==
  (NoFailures /\ N >= 1 /\ Len(ret.out) = 1)
  => /\ ret.out[1].Context =
          state.Steps[workflow.Steps[N].Name].Input.Context
     /\ ret.out[1].Context = input.Context
     /\ \A k \in DOMAIN calls : calls[k].input = <<[calls[k].input[1] EXCEPT
                                                     !.Context = input.Context]>>

\* a clean run of three steps, called with a context, whose steps returned
\* data that differ from the caller's
C22_Witness ==
  /\ NoFailures
  /\ N = 3
  /\ Len(ret.out) = 1
  /\ input.Context = "c1"
  /\ ret.out[1].Context = "c1"
  /\ ret.out[1].Data # input.Data
  /\ calls[1].net.body # calls[2].net.body

\* C23: after a step that is not the last succeeds, the data seeded as the
\* next step's input is exactly that step's result data, in place of the
\* caller's input data and of the data of earlier steps.
C23_NextDataIsResultData ==
  /\ (pc = "running" /\ i > 1)
       => /\ Succeeded(Len(calls))
          /\ workflow.Steps[i].Name \in DOMAIN state.Steps
          /\ state.Steps[workflow.Steps[i].Name].Input.Data =
               calls[Len(calls)].ret.result[1].Data
          /\ state.Steps[workflow.Steps[i].Name].Input.Data =
               JSONDecode(calls[Len(calls)].net.body).Data
  /\ \A k \in DOMAIN calls :
       (k > 1 /\ calls[k].kind = "step")
       => calls[k].input = << WorkflowInput(calls[k - 1].ret.result[1].Data,
                                            calls[k].input[1].Context) >>

\* the third step is about to run on the data of the second, which differ
\* from the data of the first and from the caller's
C23_Witness ==
  /\ pc = "running"
  /\ i = 3
  /\ state.Steps[workflow.Steps[3].Name].Input.Data = "d2"
  /\ calls[1].ret.result[1].Data = "d1"
  /\ input.Data = "d0"
  /\ UniqueNames(workflow)

\* the entry the loop leaves for the step of call k of the run, once the
\* call has returned a result: the input the step was given and the result
\* as output
EntryOf(k) ==
  StepState(calls[k].input[1],
            WorkflowOutput(calls[k].ret.result[1].Data, NilMap,
                           calls[k].ret.result[1].Error))

\* C24: at the moment the template of step k is rendered, the state holds
\* for every earlier step j < k an entry under the name of step j with the
\* input seeded for j and the output recorded from j's result; recording the
\* input or output of a later step never changes or removes the entry of an
\* earlier one.
C24_EarlierEntriesKept ==
  (pc = "running")
  => \A j \in 1..(i - 1) :
       /\ calls[j].idx = j
       /\ workflow.Steps[j].Name \in DOMAIN state.Steps
       /\ state.Steps[workflow.Steps[j].Name] = EntryOf(j)

\* C25: when an error handler runs for a failing step, the entry recorded
\* under the recovery step's name has the failing step's recorded input
\* (same data, same context) and the recovery dispatch's result as output,
\* and the failing step's own entry still holds its error-carrying output.
C25_HandlerEntry ==
  \A k \in DOMAIN calls :
    (pc = "done" /\ calls[k].kind = "handler" /\ Returned(k))
    => /\ calls[k].step.Name \in DOMAIN state.Steps
       /\ state.Steps[calls[k].step.Name] =
            StepState(calls[k - 1].input[1],
                      WorkflowOutput(calls[k].ret.result[1].Data, NilMap,
                                     calls[k].ret.result[1].Error))
       /\ calls[k - 1].step.Name \in DOMAIN state.Steps
       /\ state.Steps[calls[k - 1].step.Name] = EntryOf(k - 1)
       /\ state.Steps[calls[k - 1].step.Name].Output.Error # <<>>

\* C26: whenever ExecuteChain has a step's template rendered, for a step of
\* the loop and for the step executed as error handler alike, the state
\* already holds an entry under that step's name with the input of that
\* step.
C26_OwnEntryAtRender ==
  \A k \in DOMAIN calls :
    /\ Len(calls[k].input) = 1
    /\ calls[k].kind = "handler" => calls[k].input = calls[k - 1].input

\* workflows/user_signup_chain.yaml: the steps of the shipped workflow
ShippedSteps ==
  << Step("create_user", "user_create", TmplSignupCreate, ""),
     Step("verify_user", "user_read", TmplSignupUser, ""),
     Step("cleanup_user", "user_delete", TmplSignupUser, "") >>

\* C27: every input template of the shipped workflow user_signup_chain
\* (.input.email, .input.name, .user.user.id) evaluates without a template
\* failure against the *WorkflowState ExecuteStep executes it on, so a run
\* reaches the dispatch of each shipped step whose predecessors succeeded.
C27_ShippedTemplatesEvaluate ==
  \A k \in DOMAIN calls :
    (\E j \in DOMAIN ShippedSteps : calls[k].step = ShippedSteps[j])
    => /\ RenderedIn(calls[k].ret)
       /\ calls[k].ret.posted # <<>>
====
